---- MODULE Spec2Model ----
(***************************************************************************)
(* A model of dynet-seq2seq-attn.py: the masked batch loss, the greedy and *)
(* the beam-search predictors, the ensemble voter and the training loop.   *)
(* The neural network itself (encoder, attention, decoder cell, readout)   *)
(* is abstracted to what the control flow reads of it: a score vector with *)
(* one entry per readout row, and a strictly positive loss per position.   *)
(***************************************************************************)
EXTENDS Integers, Sequences, FiniteSets, TLC

\* ------------------------------------------------------------------ bounds
MaxBatch == 2
MaxOutLen == 2
MaxBeam == 2
MaxPredLen == 3
MaxModels == 3
MaxTest == 2
MaxTrain == 2
MaxInLen == 2
MaxEpochs == 2
MaxEvalAfter == 2
MaxPatience == 2
MaxTotalBatches == 6

\* --------------------------------------------------------------- constants
UNK == "UNK"
BEGIN_SEQ == "<s>"
END_SEQ == "</s>"

\* The output vocabulary main builds: the corpus tokens, then UNK, <s>, </s>.
output_vocabulary == <<"a", UNK, BEGIN_SEQ, END_SEQ>>

\* Tokens an output sentence may hold; "zz" is not in the vocabulary.
OutTokens == {"a", "zz"}

\* dict(zip(vocabulary, range(len(vocabulary)))): 0-based ids.
Index2int(vocab, tok) == (CHOOSE k \in 1..Len(vocab) : vocab[k] = tok) - 1

InVocab(vocab, tok) == \E k \in 1..Len(vocab) : vocab[k] = tok

y2int(tok) == Index2int(output_vocabulary, tok)

int2y(index) == output_vocabulary[index + 1]

\* ----------------------------------------------------------------- helpers
SeqsUpTo(S, n) == UNION {[1..k -> S] : k \in 0..n}

NonEmptySeqsUpTo(S, n) == UNION {[1..k -> S] : k \in 1..n}

Min(a, b) == IF a < b THEN a ELSE b

RECURSIVE SumSeq(_)
SumSeq(s) == IF s = <<>> THEN 0 ELSE Head(s) + SumSeq(Tail(s))

RECURSIVE MaxLenOf(_)
MaxLenOf(seqs) ==
  IF Len(seqs) = 1 THEN Len(seqs[1])
  ELSE LET m == MaxLenOf(Tail(seqs))
       IN IF Len(seqs[1]) > m THEN Len(seqs[1]) ELSE m

\* ------------------------------------------------------ get_batch_word_ids
\* Rows are timesteps (1-based here, 0-based in the code), columns sequences.
BatchMasks(batch_seqs) ==
  [i \in 1..MaxLenOf(batch_seqs) |->
     [j \in 1..Len(batch_seqs) |-> IF Len(batch_seqs[j]) > i - 1 THEN 1 ELSE 0]]

\* Mutant of BatchWordIds: short sequences are padded with the UNK id.
BatchWordIdsPadUnk(batch_seqs, vocab) ==
  [i \in 1..MaxLenOf(batch_seqs) |->
     [j \in 1..Len(batch_seqs) |->
        IF i - 1 > Len(batch_seqs[j]) - 1 \/ ~InVocab(vocab, batch_seqs[j][i])
        THEN Index2int(vocab, UNK)
        ELSE Index2int(vocab, batch_seqs[j][i])]]

BatchWordIds(batch_seqs, vocab) ==
  [i \in 1..MaxLenOf(batch_seqs) |->
     [j \in 1..Len(batch_seqs) |->
        IF i - 1 > Len(batch_seqs[j]) - 1
        THEN Index2int(vocab, END_SEQ)
        ELSE IF InVocab(vocab, batch_seqs[j][i])
             THEN Index2int(vocab, batch_seqs[j][i])
             ELSE Index2int(vocab, UNK)]]

BatchTotChars(batch_seqs) ==
  SumSeq([i \in 1..MaxLenOf(batch_seqs) |-> SumSeq(BatchMasks(batch_seqs)[i])])

get_batch_word_ids(batch_seqs, vocab) ==
  [ids |-> BatchWordIds(batch_seqs, vocab),
   masks |-> BatchMasks(batch_seqs),
   tot |-> BatchTotChars(batch_seqs)]

\* ================================================================ state
VARIABLES
  loss_pc,            \* compute_batch_loss: "start", "loop", "sum", "done"
  batch_output_seqs,  \* its argument: the gold output sentences of the batch
  output_word_ids,    \* get_batch_word_ids(...)[0]
  output_masks,       \* get_batch_word_ids(...)[1]
  loss_i,             \* the decoder loop's i (timesteps done)
  losses,             \* per timestep, the loss of each batch element
  total_batch_loss    \* the returned sum (-1 before it is computed)

lossVars == <<loss_pc, batch_output_seqs, output_word_ids, output_masks,
              loss_i, losses, total_batch_loss>>

VARIABLES
  input_vocabulary,   \* its length is the number of readout rows (build_model)
  max_prediction_len, \* --max-pred
  beam_param,         \* --beam-size
  input_seq,          \* the sentence to translate
  scores              \* the scores of the model, by the last symbol fed to the decoder

decVars == <<input_vocabulary, max_prediction_len, beam_param, input_seq, scores>>

VARIABLES
  beam_pc,      \* predict_beamsearch: "start", "while", "for", "nbest", "done", "error"
  beam,         \* step index -> the hypotheses kept at that step
  beam_i,       \* i
  beam_h,       \* how many hypotheses of beam[i - 1] the for loop has expanded
  new_hypos,    \* the live expansions of the current step
  final_states, \* the completed sequences and their probabilities
  nbest_seqs,   \* the returned list
  step_cands    \* log: every candidate the current step generated, in order

beamVars == <<beam_pc, beam, beam_i, beam_h, new_hypos, final_states, nbest_seqs,
              step_cands>>

VARIABLES
  greedy_pc,          \* predict_output_sequence: "start", "loop", "ret", "done", "error"
  predicted_sequence, \* the tokens predicted so far
  greedy_i,           \* i
  greedy_result       \* the returned sequence

greedyVars == <<greedy_pc, predicted_sequence, greedy_i, greedy_result>>

VARIABLES
  ens_pc,                       \* predict_with_ensemble_majority: "predict", "vote",
                                \* "done", "error"
  test_inputs,                  \* the test sentences, each a list of tokens
  ensemble_size,                \* len(ensemble_models)
  ensemble_predictions,         \* per model, its dict of predictions
  ens_i,                        \* how many test inputs the voting loop has passed
  prediction_counter,           \* the vote counts of the input voted last
  string_to_template,           \* prediction string -> token list
  majority_predicted_sequences  \* the returned dict

ensVars == <<ens_pc, test_inputs, ensemble_size, ensemble_predictions, ens_i,
             prediction_counter, string_to_template, majority_predicted_sequences>>

VARIABLES
  train_pc,     \* train_model: "epochs" (the for loop over epochs), "batches"
                \* (the loop over the batches of an epoch), "returned"
  train_data,   \* the input length of every training example, longest first
  train_args,   \* batch_size, epochs, eval_after, max_patience
  train,        \* the local variables of train_model
  train_order,  \* the batch start indices, in this epoch's order
  saved_model,  \* the checkpoint file: the total_batches its parameters had, or -1
  log_file,     \* the rows appended to the log file
  train_ret     \* the two epochs returned

trainVars == <<train_pc, train_data, train_args, train, train_order, saved_model,
               log_file, train_ret>>

VARIABLES
  enc_pc,           \* batch_bilstm_encode: "batch" (train_model cuts the batch),
                    \* "ids", "pad", "loop", "done"; "skipped" for a skipped batch
  train_inputs,     \* the training input sentences, as loaded
  enc_batch_size,   \* train_model's batch_size
  input_seq_batch,  \* the encoder's argument
  x2int,            \* the vocabulary the ids are looked up in
  word_ids,         \* per position, the id of every sequence of the batch
  masks,            \* get_batch_word_ids(...)[1]
  tot_chars,        \* get_batch_word_ids(...)[2]
  enc_i,            \* the encoder loop's i
  f_outputs,        \* per step, the row of word_ids the forward rnn was fed
  r_outputs,        \* per step, the row of word_ids the backward rnn was fed
  final_outputs     \* per position, the forward and backward output joined

encVars == <<enc_pc, train_inputs, enc_batch_size, input_seq_batch, x2int, word_ids,
             masks, tot_chars, enc_i, f_outputs, r_outputs, final_outputs>>

vars == <<lossVars, decVars, beamVars, greedyVars, ensVars, trainVars, encVars>>

\* What each component leaves alone.
NotLoss == <<decVars, beamVars, greedyVars, ensVars, trainVars, encVars>>
NotBeam == <<lossVars, greedyVars, ensVars, trainVars, encVars>>
NotGreedy == <<lossVars, beamVars, ensVars, trainVars, encVars>>
NotEns == <<lossVars, decVars, beamVars, greedyVars, trainVars, encVars>>
NotTrain == <<lossVars, decVars, beamVars, greedyVars, ensVars, encVars>>
NotEnc == <<lossVars, decVars, beamVars, greedyVars, ensVars, trainVars>>

\* The values of a component that is not running.
LossIdle ==
  /\ loss_pc = "idle" /\ batch_output_seqs = <<>> /\ output_word_ids = <<>>
  /\ output_masks = <<>> /\ loss_i = 0 /\ losses = <<>> /\ total_batch_loss = -1

DecIdle ==
  /\ input_vocabulary = <<>> /\ max_prediction_len = 0 /\ beam_param = 0
  /\ input_seq = <<>> /\ scores = <<>>

BeamIdle ==
  /\ beam_pc = "idle" /\ beam = <<>> /\ beam_i = 0 /\ beam_h = 0
  /\ new_hypos = <<>> /\ final_states = <<>> /\ nbest_seqs = <<>>
  /\ step_cands = <<>>

GreedyIdle ==
  /\ greedy_pc = "idle" /\ predicted_sequence = <<>> /\ greedy_i = 0
  /\ greedy_result = <<>>

EnsIdle ==
  /\ ens_pc = "idle" /\ test_inputs = <<>> /\ ensemble_size = 0
  /\ ensemble_predictions = <<>> /\ ens_i = 0 /\ prediction_counter = <<>>
  /\ string_to_template = <<>> /\ majority_predicted_sequences = <<>>

TrainIdle ==
  /\ train_pc = "idle" /\ train_data = <<>> /\ train_args = <<>> /\ train = <<>>
  /\ train_order = <<>> /\ saved_model = -1 /\ log_file = <<>> /\ train_ret = <<>>

EncIdle ==
  /\ enc_pc = "idle" /\ train_inputs = <<>> /\ enc_batch_size = 0
  /\ input_seq_batch = <<>> /\ x2int = <<>> /\ word_ids = <<>> /\ masks = <<>>
  /\ tot_chars = 0 /\ enc_i = 0 /\ f_outputs = <<>> /\ r_outputs = <<>>
  /\ final_outputs = <<>>

\* ================================================= the model's output scores
\* The input vocabularies main may build (corpus tokens, then UNK, <s>, </s>).
\* build_model gives readout and bias len(input_vocabulary) rows, so softmax(h)
\* has one probability per INPUT vocabulary entry.
InputVocabularies == {<<"x", UNK, BEGIN_SEQ, END_SEQ>>,
                      <<"x", "y", UNK, BEGIN_SEQ, END_SEQ>>}

InputSeqs == {<<>>, <<"x">>}

ReadoutRows == Len(input_vocabulary)

\* Probabilities are fractions over ProbDen; a softmax gives every row a
\* strictly positive one and they sum to 1.
ProbDen == ReadoutRows * (ReadoutRows + 1)

\* The rows other than t and s, in index order, have 2/ProbDen, 4/ProbDen, ...
RankAmongRest(k, t, s) == Cardinality({l \in 1..k : l - 1 # t /\ l - 1 # s})

\* Row t is the most probable and row s the second (0-based rows); no two
\* rows have the same probability.
Peaked(t, s) ==
  [k \in 1..ReadoutRows |->
     IF k - 1 = t THEN 2 * ReadoutRows
     ELSE IF k - 1 = s THEN 2 * ReadoutRows - 2
     ELSE 2 * RankAmongRest(k, t, s)]

\* Rows t and s tie as the most probable.
Tied(t, s) ==
  [k \in 1..ReadoutRows |->
     IF k - 1 = t \/ k - 1 = s THEN 2 * ReadoutRows - 1
     ELSE 2 * RankAmongRest(k, t, s)]

\* The output distributions the model may compute.
Dists ==
  {Peaked(y2int("a"), y2int(END_SEQ)), Peaked(y2int("a"), y2int(UNK)),
   Peaked(y2int(UNK), y2int("a")), Peaked(y2int(UNK), y2int(END_SEQ)),
   Peaked(y2int(END_SEQ), y2int("a")), Peaked(y2int(BEGIN_SEQ), y2int(END_SEQ)),
   Peaked(ReadoutRows - 1, y2int("a")), Peaked(y2int("a"), ReadoutRows - 1),
   Tied(y2int("a"), y2int(UNK)), Tied(y2int("a"), y2int(END_SEQ))}

NoDist == <<>>

\* The distribution after the decoder is fed `symbol`: fixed by the model's
\* parameters, and drawn the first time the search asks for it.
DistFor(symbol) == IF scores[symbol] = NoDist THEN Dists ELSE {scores[symbol]}

\* A cumulative probability is kept as a whole number of units of
\* ProbDen^(-max_prediction_len), so that a product of up to
\* max_prediction_len probabilities is exact.
ProbOne == ProbDen ^ max_prediction_len

MulProb(prefix_prob, p) == (prefix_prob * p) \div ProbDen

DecInit ==
  /\ input_vocabulary \in InputVocabularies
  /\ max_prediction_len \in 1..MaxPredLen
  /\ beam_param \in 1..MaxBeam
  /\ input_seq \in InputSeqs
  /\ scores = [y \in {output_vocabulary[k] : k \in 1..Len(output_vocabulary)} |-> NoDist]

\* ============================================================ common.argmax
\* common.argmax(arr, k): the positions (1-based here) of the k largest values
\* of arr, largest first; every order of equal values is a possible result.
MaxPositions(arr, left) == {j \in left : \A l \in left : arr[l] <= arr[j]}

RECURSIVE ArgmaxFrom(_, _, _, _)
ArgmaxFrom(arr, chosen, left, m) ==
  IF m = 0 \/ left = {} THEN {chosen}
  ELSE UNION {ArgmaxFrom(arr, Append(chosen, j), left \ {j}, m - 1) :
                j \in MaxPositions(arr, left)}

argmax(arr, k) == ArgmaxFrom(arr, <<>>, DOMAIN arr, k)

\* ======================================================= predict_beamsearch
\* A hypothesis (sequence, probability, decoder state, attention vector): the
\* decoder state and the attention vector are those computed after feeding
\* the symbols of `dec`, the parent's sequence.
Hypothesis(seq, prob, dec) == [seq |-> seq, prob |-> prob, dec |-> dec]

\* Line 817: a new sequence is complete when it ends in END or at the last step.
IsComplete(new_seq, i) ==
  new_seq[Len(new_seq)] = END_SEQ \/ i = max_prediction_len - 1

\* Line 820: new_seq[1:-1].
StoredSeq(new_seq) == SubSeq(new_seq, 2, Len(new_seq) - 1)

\* Mutant of Expansions: the token is looked up by its rank among the n best
\* instead of by its vocabulary index.
ExpansionsByRank(hypothesis, probs_val, n_best_indices) ==
  [k \in 1..Len(n_best_indices) |->
     [seq |-> Append(hypothesis.seq, int2y(k - 1)),
      prob |-> MulProb(hypothesis.prob, probs_val[n_best_indices[k]]),
      dec |-> hypothesis.seq,
      index |-> k - 1,
      probs |-> probs_val]]

\* Lines 813-816: the expansions of one hypothesis by its n best next tokens.
Expansions(hypothesis, probs_val, n_best_indices) ==
  [k \in 1..Len(n_best_indices) |->
     [seq |-> Append(hypothesis.seq, int2y(n_best_indices[k] - 1)),
      prob |-> MulProb(hypothesis.prob, probs_val[n_best_indices[k]]),
      dec |-> hypothesis.seq,
      index |-> n_best_indices[k] - 1,
      probs |-> probs_val]]

\* Mutants of KeptHypos: the pruning forgotten; the first expansions kept,
\* whatever their probability.
KeptHyposUnpruned(hypos) == {hypos}

KeptHyposFirstK(hypos) == {SubSeq(hypos, 1, Min(beam_param, Len(hypos)))}

\* Lines 825-827: the hypotheses kept for the next step.
KeptHypos(hypos) ==
  {[l \in 1..Len(argmax_indices) |-> hypos[argmax_indices[l]]] :
     argmax_indices \in argmax([l \in 1..Len(hypos) |-> hypos[l].prob], beam_param)}

\* Mutant of NbestOf: the first completed sequences, whatever their probability.
NbestOfFirstK(states) == {SubSeq(states, 1, Min(beam_param, Len(states)))}

\* Lines 831-833: the n best of the completed sequences.
NbestOf(states) ==
  {[l \in 1..Len(argmax_indices) |-> states[argmax_indices[l]]] :
     argmax_indices \in argmax([l \in 1..Len(states) |-> states[l].prob], beam_param)}

BeamInit ==
  /\ DecInit
  /\ beam_pc = "start" /\ beam = <<>> /\ beam_i = 0 /\ beam_h = 0
  /\ new_hypos = <<>> /\ final_states = <<>> /\ nbest_seqs = <<>>
  /\ step_cands = <<>>
  /\ LossIdle /\ GreedyIdle /\ EnsIdle /\ TrainIdle /\ EncIdle

\* Lines 742-768: an empty input returns []; else the seed is beam[-1].
BeamStart ==
  /\ beam_pc = "start"
  /\ IF Len(input_seq) = 0
     THEN /\ beam_pc' = "done"
          /\ UNCHANGED beam
     ELSE /\ beam_pc' = "while"
          /\ beam' = [k \in {-1} |-> <<Hypothesis(<<BEGIN_SEQ>>, ProbOne, <<>>)>>]
  /\ UNCHANGED <<beam_i, beam_h, new_hypos, final_states, nbest_seqs, step_cands>>
  /\ UNCHANGED <<decVars, NotBeam>>

\* Lines 771-774: the while test, and new_hypos = [].
BeamWhile ==
  /\ beam_pc = "while"
  /\ IF beam_i < max_prediction_len /\ Len(beam[beam_i - 1]) > 0
     THEN /\ beam_pc' = "for"
          /\ beam_h' = 0
          /\ new_hypos' = <<>>
          /\ step_cands' = <<>>
     ELSE /\ beam_pc' = "nbest"
          /\ UNCHANGED <<beam_h, new_hypos, step_cands>>
  /\ UNCHANGED <<beam, beam_i, final_states, nbest_seqs>>
  /\ UNCHANGED <<decVars, NotBeam>>

\* Lines 775-822: the for loop's body for one hypothesis of beam[i - 1].
BeamExpand ==
  /\ beam_pc = "for"
  /\ beam_h < Len(beam[beam_i - 1])
  /\ LET hypothesis == beam[beam_i - 1][beam_h + 1]
         last_hypo_symbol == hypothesis.seq[Len(hypothesis.seq)]
     IN IF last_hypo_symbol = END_SEQ \/ ~InVocab(output_vocabulary, last_hypo_symbol)
        THEN \* continue
             /\ beam_h' = beam_h + 1
             /\ UNCHANGED <<beam_pc, new_hypos, final_states, step_cands, scores>>
        ELSE \E probs_val \in DistFor(last_hypo_symbol) :
             \E n_best_indices \in argmax(probs_val, beam_param) :
               /\ scores' = [scores EXCEPT ![last_hypo_symbol] = probs_val]
               /\ IF \E k \in 1..Len(n_best_indices) :
                       n_best_indices[k] - 1 >= Len(output_vocabulary)
                  THEN \* int2y[index] raises KeyError
                       /\ beam_pc' = "error"
                       /\ UNCHANGED <<beam_h, new_hypos, final_states, step_cands>>
                  ELSE LET exps == Expansions(hypothesis, probs_val, n_best_indices)
                           done(c) == IsComplete(c.seq, beam_i)
                           live(c) == ~IsComplete(c.seq, beam_i)
                           complete == SelectSeq(exps, done)
                           open == SelectSeq(exps, live)
                       IN /\ final_states' = final_states \o
                               [k \in 1..Len(complete) |->
                                  [seq |-> StoredSeq(complete[k].seq),
                                   prob |-> complete[k].prob]]
                          /\ new_hypos' = new_hypos \o
                               [k \in 1..Len(open) |->
                                  Hypothesis(open[k].seq, open[k].prob, open[k].dec)]
                          /\ step_cands' = step_cands \o exps
                          /\ beam_h' = beam_h + 1
                          /\ UNCHANGED beam_pc
  /\ UNCHANGED <<beam, beam_i, nbest_seqs>>
  /\ UNCHANGED <<input_vocabulary, max_prediction_len, beam_param, input_seq>>
  /\ UNCHANGED NotBeam

\* Lines 824-828: keep the most probable expansions as beam[i].
BeamPrune ==
  /\ beam_pc = "for"
  /\ beam_h = Len(beam[beam_i - 1])
  /\ \E kept \in KeptHypos(new_hypos) :
       beam' = [k \in DOMAIN beam \cup {beam_i} |->
                  IF k = beam_i THEN kept ELSE beam[k]]
  /\ beam_i' = beam_i + 1
  /\ beam_pc' = "while"
  /\ UNCHANGED <<beam_h, new_hypos, final_states, nbest_seqs, step_cands>>
  /\ UNCHANGED <<decVars, NotBeam>>

\* Lines 830-835: the n best completed sequences are returned.
BeamNbest ==
  /\ beam_pc = "nbest"
  /\ nbest_seqs' \in NbestOf(final_states)
  /\ beam_pc' = "done"
  /\ UNCHANGED <<beam, beam_i, beam_h, new_hypos, final_states, step_cands>>
  /\ UNCHANGED <<decVars, NotBeam>>

BeamNext == BeamStart \/ BeamWhile \/ BeamExpand \/ BeamPrune \/ BeamNbest

SpecBeam == BeamInit /\ [][BeamNext]_vars

\* ------------------------------------------------------------------ C2
\* C2: for every step index i >= 0 the search reached, beam[i] holds at most
\* beam_param hypotheses.
C2_FrontierAtMostK ==
  \A k \in DOMAIN beam : k >= 0 => Len(beam[k]) <= beam_param

\* A step generated more live expansions than beam_param and was pruned.
C2_Witness ==
  /\ beam_pc = "while" /\ beam_i >= 1
  /\ Len(new_hypos) > beam_param
  /\ Len(beam[beam_i - 1]) = beam_param

\* ------------------------------------------------------------------ C3
Last(seq) == seq[Len(seq)]

\* The tokens of a sequence that are neither BEGIN nor END, in order.
NotSentinel(tok) == tok # BEGIN_SEQ /\ tok # END_SEQ

NonSentinels(seq) == SelectSeq(seq, NotSentinel)

InSeq(x, seq) == \E k \in 1..Len(seq) : seq[k] = x

\* C3 (first part): a candidate is moved to final_states exactly when it ends
\* in END or is produced at the last allowed step; the others stay live.
C3_MovedExactlyWhenComplete ==
  beam_pc = "for" =>
    \A k \in 1..Len(step_cands) :
      LET c == step_cands[k]
      IN IF Last(c.seq) = END_SEQ \/ beam_i = max_prediction_len - 1
         THEN /\ \E f \in 1..Len(final_states) : final_states[f].prob = c.prob
              /\ ~InSeq(Hypothesis(c.seq, c.prob, c.dec), new_hypos)
         ELSE InSeq(Hypothesis(c.seq, c.prob, c.dec), new_hypos)

\* C3 (last part): a completed hypothesis is never in a frontier.
C3_CompletedNeverInFrontier ==
  \A k \in DOMAIN beam : k >= 0 =>
    \A l \in 1..Len(beam[k]) :
      Last(beam[k][l].seq) # END_SEQ /\ k # max_prediction_len - 1

\* C3: a candidate is moved to final_states exactly when it ends in END or is
\* produced at the last allowed step, what is stored is its token sequence
\* without its BEGIN and END sentinels only (every generated token is kept),
\* and a completed hypothesis is never in a later frontier.
C3_CompletedStoredWithoutSentinels ==
  /\ C3_MovedExactlyWhenComplete
  /\ C3_CompletedNeverInFrontier
  /\ beam_pc = "for" =>
       \A k \in 1..Len(step_cands) :
         LET c == step_cands[k]
         IN (Last(c.seq) = END_SEQ \/ beam_i = max_prediction_len - 1) =>
              \E f \in 1..Len(final_states) :
                 /\ final_states[f].prob = c.prob
                 /\ NonSentinels(final_states[f].seq) = NonSentinels(c.seq)
                 /\ ~InSeq(END_SEQ, final_states[f].seq)

\* ------------------------------------------------------------------ C5
\* How many candidates of the step are strictly more probable than c.
Outranking(c) == Cardinality({k \in 1..Len(step_cands) : step_cands[k].prob > c.prob})

CandComplete(c, i) == Last(c.seq) = END_SEQ \/ i = max_prediction_len - 1

\* After step beam_i - 1 was pruned, new_hypos and step_cands are that step's.
StepPruned == beam_pc \in {"while", "nbest", "done"} /\ beam_i >= 1

CountIn(x, seq) == Cardinality({k \in 1..Len(seq) : seq[k] = x})

\* v is the l-th largest probability of final_states.
IsNthLargest(v, l) ==
  /\ Cardinality({q \in 1..Len(final_states) : final_states[q].prob > v}) < l
  /\ Cardinality({q \in 1..Len(final_states) : final_states[q].prob >= v}) >= l

\* C6: the search returns at most beam_param completed hypotheses, the most
\* probable of all those completed, most probable first.
C6_NbestAreTopKDescending ==
  (beam_pc = "done" /\ Len(input_seq) > 0) =>
    /\ Len(nbest_seqs) = Min(beam_param, Len(final_states))
    /\ \A l \in 1..Len(nbest_seqs) :
         /\ IsNthLargest(nbest_seqs[l].prob, l)
         /\ CountIn(nbest_seqs[l], nbest_seqs) <= CountIn(nbest_seqs[l], final_states)

\* More hypotheses were completed than returned, and not in order of rank.
C6_Witness ==
  /\ beam_pc = "done"
  /\ Len(final_states) > beam_param
  /\ beam_param >= 2
  /\ nbest_seqs # SubSeq(final_states, 1, beam_param)
  /\ nbest_seqs[1].prob > nbest_seqs[2].prob

\* ------------------------------------------------------------------ C7
IsMaxRow(dist, row) == \A r \in 1..Len(dist) : dist[r] <= dist[row]

\* C7: with beam width 1 every step extends the single hypothesis with a most
\* probable token of the distribution computed from that hypothesis.
C7_WidthOneTakesArgmax ==
  beam_param = 1 =>
    /\ Len(step_cands) <= 1
    /\ \A k \in DOMAIN beam :
         (k >= 0 /\ beam[k] # <<>>) =>
           LET child == beam[k][1]
               parent == beam[k - 1][1]
               dist == scores[Last(parent.seq)]
           IN /\ Len(beam[k - 1]) = 1
              /\ \E row \in 1..Len(dist) :
                   /\ IsMaxRow(dist, row)
                   /\ child.seq = Append(parent.seq, output_vocabulary[row])
                   /\ child.prob = MulProb(parent.prob, dist[row])
    /\ \A k \in 1..Len(step_cands) :
         LET c == step_cands[k]
             dist == scores[Last(c.dec)]
         IN \E row \in 1..Len(dist) :
              /\ IsMaxRow(dist, row)
              /\ c.seq = Append(c.dec, output_vocabulary[row])
              /\ c.prob = MulProb(beam[Len(c.dec) - 2][1].prob, dist[row])

\* Width 1, two extensions made, the second from a distribution with a tie.
C7_Witness ==
  /\ beam_param = 1
  /\ beam_pc = "while" /\ beam_i = 2
  /\ Len(beam[1]) = 1
  /\ \E r \in 1..Len(scores[Last(beam[0][1].seq)]) :
       /\ IsMaxRow(scores[Last(beam[0][1].seq)], r)
       /\ output_vocabulary[r] # Last(beam[1][1].seq)

\* ================================================== predict_output_sequence
\* np.argmax: the first row holding the largest value (0-based).
NpArgmax(probs_val) ==
  (CHOOSE row \in 1..Len(probs_val) :
     /\ \A r \in 1..Len(probs_val) : probs_val[r] <= probs_val[row]
     /\ \A r \in 1..row - 1 : probs_val[r] < probs_val[row]) - 1

\* Line 738: predicted_sequence[0:-1].
AllButLast(seq) == SubSeq(seq, 1, Len(seq) - 1)

GreedyInit ==
  /\ DecInit
  /\ greedy_pc = "start" /\ predicted_sequence = <<>> /\ greedy_i = 0
  /\ greedy_result = <<>>
  /\ LossIdle /\ BeamIdle /\ EnsIdle /\ TrainIdle /\ EncIdle

\* Lines 678-704: an empty input returns []; else the loop starts at i = 0.
GreedyStart ==
  /\ greedy_pc = "start"
  /\ greedy_pc' = IF Len(input_seq) = 0 THEN "done" ELSE "loop"
  /\ UNCHANGED <<predicted_sequence, greedy_i, greedy_result>>
  /\ UNCHANGED <<decVars, NotGreedy>>

\* Lines 707-735: one decoder step; the symbol fed back is the last prediction.
GreedyStep ==
  /\ greedy_pc = "loop"
  /\ greedy_i < max_prediction_len
  /\ LET prev_symbol == IF predicted_sequence = <<>> THEN BEGIN_SEQ
                        ELSE predicted_sequence[Len(predicted_sequence)]
     IN \E probs_val \in DistFor(prev_symbol) :
          LET next_element_index == NpArgmax(probs_val)
          IN /\ scores' = [scores EXCEPT ![prev_symbol] = probs_val]
             /\ IF next_element_index >= Len(output_vocabulary)
                THEN \* int2y[next_element_index] raises KeyError
                     /\ greedy_pc' = "error"
                     /\ UNCHANGED <<predicted_sequence, greedy_i>>
                ELSE /\ predicted_sequence' =
                          Append(predicted_sequence, int2y(next_element_index))
                     /\ IF int2y(next_element_index) = END_SEQ
                        THEN greedy_pc' = "ret" /\ UNCHANGED greedy_i
                        ELSE greedy_i' = greedy_i + 1 /\ UNCHANGED greedy_pc
  /\ UNCHANGED greedy_result
  /\ UNCHANGED <<input_vocabulary, max_prediction_len, beam_param, input_seq>>
  /\ UNCHANGED NotGreedy

\* Lines 737-738: after the break, or when i reached max_prediction_len.
GreedyReturn ==
  /\ \/ greedy_pc = "ret"
     \/ greedy_pc = "loop" /\ greedy_i >= max_prediction_len
  /\ greedy_result' = AllButLast(predicted_sequence)
  /\ greedy_pc' = "done"
  /\ UNCHANGED <<predicted_sequence, greedy_i>>
  /\ UNCHANGED <<decVars, NotGreedy>>

GreedyNext == GreedyStart \/ GreedyStep \/ GreedyReturn

SpecGreedy == GreedyInit /\ [][GreedyNext]_vars

\* ------------------------------------------------------------------ C4
NotEnd(tok) == tok # END_SEQ

\* C4: the greedy predictor runs at most max_prediction_len decoder steps,
\* none after the step that predicted END, and returns the tokens it predicted
\* without END, whether it stopped on END or on the maximum length.
C4_GreedyReturnsPredictedWithoutEnd ==
  /\ Len(predicted_sequence) <= max_prediction_len
  /\ \A k \in 1..Len(predicted_sequence) - 1 : predicted_sequence[k] # END_SEQ
  /\ (greedy_pc = "done" /\ Len(input_seq) > 0) =>
       /\ greedy_result = SelectSeq(predicted_sequence, NotEnd)
       /\ \A k \in 1..Len(greedy_result) : greedy_result[k] # END_SEQ

\* C4 without the returned value: the bound on the steps, and END is last.
C4_StepsBoundedEndLast ==
  /\ Len(predicted_sequence) <= max_prediction_len
  /\ \A k \in 1..Len(predicted_sequence) - 1 : predicted_sequence[k] # END_SEQ
  /\ \A k \in 1..Len(greedy_result) : greedy_result[k] # END_SEQ

\* ------------------------------------------------------------------ C19
\* At the while test after a step, the frontier is non-empty or a hypothesis
\* has been completed; the step index never passes max_prediction_len; the
\* search of a non-empty input returns at least one completed hypothesis.
C19_CompletedUnlessLookupFails ==
  /\ beam_i <= max_prediction_len
  /\ (beam_pc = "while" /\ beam_i >= 1) =>
       (Len(beam[beam_i - 1]) > 0 \/ Len(final_states) > 0)
  /\ (beam_pc = "done" /\ Len(input_seq) > 0) => Len(nbest_seqs) >= 1

\* C19: for a non-empty input predict_beamsearch ends, after at most
\* max_prediction_len expansion steps, by returning at least one completed
\* hypothesis (so nbest[0] is defined): it raises nothing on the way, and at
\* every step the frontier is non-empty or a hypothesis has been completed.
C19_BeamSearchReturnsAHypothesis ==
  Len(input_seq) > 0 =>
    /\ beam_pc # "error"
    /\ C19_CompletedUnlessLookupFails

\* ------------------------------------------------------------------ C20
\* The greedy predictor's lookup int2y[next_element_index] raises nothing.
C20_GreedyIndexIsOutputId == greedy_pc # "error"

\* C20: every index the beam predictor takes from the top beam_param of the
\* output scores is a key of int2y, so int2y[index] raises nothing; every
\* index a candidate was built from is an output-vocabulary id.
C20_SelectedIndexIsOutputId ==
  /\ beam_pc # "error"
  /\ \A k \in 1..Len(step_cands) : step_cands[k].index \in 0..(Len(output_vocabulary) - 1)

\* ======================= predict_output_sequence and predict_beamsearch(1)
\* Both predictors are called with the same parameters (the same scores),
\* the same input and the same max_prediction_len, the search with width 1.
\* The two calls share nothing else, so their steps interleave freely.
GreedyAndBeamInit ==
  /\ DecInit
  /\ beam_param = 1
  /\ beam_pc = "start" /\ beam = <<>> /\ beam_i = 0 /\ beam_h = 0
  /\ new_hypos = <<>> /\ final_states = <<>> /\ nbest_seqs = <<>>
  /\ step_cands = <<>>
  /\ greedy_pc = "start" /\ predicted_sequence = <<>> /\ greedy_i = 0
  /\ greedy_result = <<>>
  /\ LossIdle /\ EnsIdle /\ TrainIdle /\ EncIdle

GreedyAndBeamNext == GreedyNext \/ BeamNext

SpecGreedyAndBeam == GreedyAndBeamInit /\ [][GreedyAndBeamNext]_vars

\* ------------------------------------------------------------------ C21
\* Every distribution the two predictors were given has one largest row.
UniqueMaxima ==
  \A y \in DOMAIN scores :
    scores[y] # NoDist =>
      Cardinality(MaxPositions(scores[y], DOMAIN scores[y])) = 1

BothEnded == beam_pc \in {"done", "error"} /\ greedy_pc \in {"done", "error"}

\* When neither token lookup fails, the search of width 1 returns one
\* hypothesis, with the tokens the greedy predictor returns; and the lookup
\* fails in the search exactly when it fails in the greedy predictor.
C21_SameSequenceUnlessLookupFails ==
  (Len(input_seq) > 0 /\ UniqueMaxima /\ BothEnded) =>
    /\ beam_pc = "error" <=> greedy_pc = "error"
    /\ beam_pc = "done" =>
         /\ Len(nbest_seqs) = 1
         /\ Len(final_states) = 1
         /\ nbest_seqs[1].seq = greedy_result

\* C21: for the same parameters, the same non-empty input and the same
\* max_prediction_len, and distributions with a unique largest row,
\* predict_beamsearch with beam width 1 returns exactly one completed
\* hypothesis, and its token sequence is the one predict_output_sequence
\* returns, whether they stop on END or on the maximum length.
C21_WidthOneEqualsGreedy ==
  (Len(input_seq) > 0 /\ UniqueMaxima) =>
    /\ beam_pc # "error"
    /\ greedy_pc # "error"
    /\ (beam_pc = "done" /\ greedy_pc = "done") =>
         /\ Len(nbest_seqs) = 1
         /\ nbest_seqs[1].seq = greedy_result

\* Both predictors returned after stopping on END with a token predicted.
C21_BothStoppedOnEnd ==
  /\ beam_pc = "done" /\ greedy_pc = "done" /\ UniqueMaxima
  /\ Len(predicted_sequence) >= 2
  /\ predicted_sequence[Len(predicted_sequence)] = END_SEQ
  /\ Len(nbest_seqs) = 1 /\ Len(nbest_seqs[1].seq) >= 1

\* Both predictors returned after stopping on the maximum length.
C21_BothStoppedOnLength ==
  /\ beam_pc = "done" /\ greedy_pc = "done" /\ UniqueMaxima
  /\ Len(predicted_sequence) = max_prediction_len
  /\ max_prediction_len >= 2
  /\ predicted_sequence[Len(predicted_sequence)] # END_SEQ
  /\ Len(nbest_seqs) = 1 /\ Len(nbest_seqs[1].seq) >= 1

\* ========================================== predict_with_ensemble_majority
\* Python values: a str is a sequence of characters, a list a sequence of
\* values. A dict is a function on the keys it holds; its keys are hashed, so
\* a list is no key: d[a_list] raises TypeError, for a lookup and for a store.
PyStr(chars) == [type |-> "str", val |-> chars]

PyList(items) == [type |-> "list", val |-> items]

Hashable(v) == v.type # "list"

EmptyDict == <<>>

HasKey(dict, key) == key \in DOMAIN dict

DictSet(dict, key, value) ==
  [k \in DOMAIN dict \cup {key} |-> IF k = key THEN value ELSE dict[k]]

\* sep.join(tokens), tokens a sequence of character sequences.
RECURSIVE Join(_, _)
Join(sep, tokens) ==
  IF Len(tokens) = 0 THEN <<>>
  ELSE IF Len(tokens) = 1 THEN tokens[1]
  ELSE tokens[1] \o sep \o Join(sep, Tail(tokens))

SpaceJoin(tokens) == PyStr(Join(<<" ">>, tokens))

EmptyJoin(tokens) == PyStr(Join(<<>>, tokens))

\* The test sentences and the token lists a model may predict for one.
TestSentences == {<< <<"x">> >>, << <<"x">>, <<"y">> >>}

Predictions == {<< <<"a">>, <<"b">> >>, << <<"a", "b">> >>, << <<"b">> >>}

\* Lines 864-892, predict_multiple_sequences: the dicts one model may return,
\* keyed by ' '.join(input_seq); which token list it predicts is the model's.
PredictionDicts(inputs) ==
  [{SpaceJoin(inputs[i].val) : i \in 1..Len(inputs)} -> Predictions]

EnsInit ==
  /\ ens_pc = "predict"
  /\ test_inputs \in UNION {[1..n -> {PyList(t) : t \in TestSentences}] : n \in 0..MaxTest}
  /\ ensemble_size \in 1..MaxModels
  /\ ensemble_predictions = <<>>
  /\ ens_i = 0
  /\ prediction_counter = EmptyDict
  /\ string_to_template = EmptyDict
  /\ majority_predicted_sequences = EmptyDict
  /\ LossIdle /\ DecIdle /\ BeamIdle /\ GreedyIdle /\ TrainIdle /\ EncIdle

\* Lines 180-185: the next model predicts the whole test set.
EnsPredict ==
  /\ ens_pc = "predict"
  /\ Len(ensemble_predictions) < ensemble_size
  /\ \E predicted_sequences \in PredictionDicts(test_inputs) :
       ensemble_predictions' = Append(ensemble_predictions, predicted_sequences)
  /\ UNCHANGED <<ens_pc, test_inputs, ensemble_size, ens_i, prediction_counter,
                 string_to_template, majority_predicted_sequences>>
  /\ UNCHANGED NotEns

\* Lines 187-190: every model has predicted; the voting loop starts.
EnsStartVoting ==
  /\ ens_pc = "predict"
  /\ Len(ensemble_predictions) = ensemble_size
  /\ ens_pc' = "vote"
  /\ UNCHANGED <<test_inputs, ensemble_size, ensemble_predictions, ens_i,
                 prediction_counter, string_to_template, majority_predicted_sequences>>
  /\ UNCHANGED NotEns

\* Lines 193-199: the votes of the models for joint_index, in model order.
RECURSIVE CountVotes(_, _, _)
CountVotes(joint_index, m, counter) ==
  IF m > ensemble_size THEN counter
  ELSE LET prediction_str == EmptyJoin(ensemble_predictions[m][joint_index])
           n == IF HasKey(counter, prediction_str) THEN counter[prediction_str] ELSE 0
       IN CountVotes(joint_index, m + 1, DictSet(counter, prediction_str, n + 1))

\* Line 197: the template of a string is the token list of the last model
\* that predicted it.
RECURSIVE StoreTemplates(_, _, _)
StoreTemplates(joint_index, m, templates) ==
  IF m > ensemble_size THEN templates
  ELSE StoreTemplates(joint_index, m + 1,
         DictSet(templates, EmptyJoin(ensemble_predictions[m][joint_index]),
                 ensemble_predictions[m][joint_index]))

\* Line 202, max(prediction_counter, key=prediction_counter.get): the first
\* key of largest count in the dict's iteration order, which in Python 2 is
\* the order of the hash table, any order.
MaxByCount(counter) ==
  {k \in DOMAIN counter : \A l \in DOMAIN counter : counter[l] <= counter[k]}

\* Lines 191-205: the loop body for one test input.
EnsVote ==
  /\ ens_pc = "vote"
  /\ ens_i < Len(test_inputs)
  /\ LET joint_index == test_inputs[ens_i + 1]
     IN IF ~Hashable(joint_index) \/ ~HasKey(ensemble_predictions[1], joint_index)
        THEN \* ens[joint_index] raises TypeError (a list) or KeyError
             /\ ens_pc' = "error"
             /\ UNCHANGED <<ens_i, prediction_counter, string_to_template,
                            majority_predicted_sequences>>
        ELSE LET counter == CountVotes(joint_index, 1, EmptyDict)
                 templates == StoreTemplates(joint_index, 1, string_to_template)
             IN \E majority_prediction_string \in MaxByCount(counter) :
                  /\ prediction_counter' = counter
                  /\ string_to_template' = templates
                  /\ majority_predicted_sequences' =
                       DictSet(majority_predicted_sequences, joint_index,
                               templates[majority_prediction_string])
                  /\ ens_i' = ens_i + 1
                  /\ UNCHANGED ens_pc
  /\ UNCHANGED <<test_inputs, ensemble_size, ensemble_predictions>>
  /\ UNCHANGED NotEns

\* Line 207: the voted dict is returned.
EnsReturn ==
  /\ ens_pc = "vote"
  /\ ens_i = Len(test_inputs)
  /\ ens_pc' = "done"
  /\ UNCHANGED <<test_inputs, ensemble_size, ensemble_predictions, ens_i,
                 prediction_counter, string_to_template, majority_predicted_sequences>>
  /\ UNCHANGED NotEns

EnsNext == EnsPredict \/ EnsStartVoting \/ EnsVote \/ EnsReturn

SpecEnsemble == EnsInit /\ [][EnsNext]_vars

\* ------------------------------------------------------------ C8 and C9
\* The token list model m predicted for test input i, as
\* predict_multiple_sequences stored it.
PredictionOf(m, i) == ensemble_predictions[m][SpaceJoin(test_inputs[i].val)]

\* How many models predicted, for input i, a token list that joins to str.
VotesFor(i, str) ==
  Cardinality({m \in 1..ensemble_size : EmptyJoin(PredictionOf(m, i)) = str})

\* The voter's answer for input i, if it gave one: main reads the returned
\* dict by ' '.join(input_seq), the voter writes it by input_seq.
HasAnswer(i) ==
  \/ HasKey(majority_predicted_sequences, test_inputs[i])
  \/ HasKey(majority_predicted_sequences, SpaceJoin(test_inputs[i].val))

AnswerOf(i) ==
  IF HasKey(majority_predicted_sequences, test_inputs[i])
  THEN majority_predicted_sequences[test_inputs[i]]
  ELSE majority_predicted_sequences[SpaceJoin(test_inputs[i].val)]

EnsEnded == ens_pc \in {"done", "error"}

\* C8: for every test input the voter returns a prediction of that input with
\* the largest number of votes, two predictions being the same vote exactly
\* when they join to the same string.
C8_MajorityReturnedForEveryInput ==
  EnsEnded =>
    \A i \in 1..Len(test_inputs) :
      /\ HasAnswer(i)
      /\ \E m \in 1..ensemble_size : AnswerOf(i) = PredictionOf(m, i)
      /\ \A m \in 1..ensemble_size :
           VotesFor(i, EmptyJoin(PredictionOf(m, i)))
             <= VotesFor(i, EmptyJoin(AnswerOf(i)))

\* C9: when several strings tie for the most votes of an input, the answer is
\* the tied candidate met first in model order.
C9_TieBrokenByModelOrder ==
  EnsEnded =>
    \A i \in 1..Len(test_inputs) :
      LET top(m) == \A l \in 1..ensemble_size :
                      VotesFor(i, EmptyJoin(PredictionOf(l, i)))
                        <= VotesFor(i, EmptyJoin(PredictionOf(m, i)))
          tied == \E m, l \in 1..ensemble_size :
                    /\ top(m) /\ top(l)
                    /\ EmptyJoin(PredictionOf(m, i)) # EmptyJoin(PredictionOf(l, i))
          first == CHOOSE m \in 1..ensemble_size :
                     top(m) /\ \A l \in 1..m - 1 : ~top(l)
      IN tied =>
           /\ HasAnswer(i)
           /\ EmptyJoin(AnswerOf(i)) = EmptyJoin(PredictionOf(first, i))

\* ============================================================= train_model
\* The loss of one position, pickneglogsoftmax of a softmax: strictly positive.
NllUnit == 1

\* Line 324.
train_loss_patience_threshold == 1000

\* Line 368: patience counts start only after this many batches.
WarmUpBatches == 20

\* Line 381: a progress line is printed every this many batches of an epoch.
PrintEvery == 500

\* Lines 305 and 307.
InitialBestLoss == 99999999

\* A float quotient is kept as <<numerator, denominator>>, denominator > 0.
Ratio(num, den) == <<num, den>>

RatioLess(a, b) == a[1] * b[2] < b[1] * a[2]

\* What one batch and one checkpoint may measure: the batch loss, the dev
\* BLEU and the summed dev loss. The two losses steer nothing before the
\* warm-up ends, so each has one value, a unit; the dev BLEU can rise, tie
\* and fall.
LossValues == {NllUnit}
BleuValues == {0, 1}
DevLossValues == {NllUnit}

IsSortedDesc(lens) == \A k \in 1..Len(lens) - 1 : lens[k] >= lens[k + 1]

\* Lines 279-281: the training examples (their input lengths), sorted by
\* descending input length.
TrainSets == {lens \in NonEmptySeqsUpTo(0..MaxInLen, MaxTrain) : IsSortedDesc(lens)}

\* Line 282: [x * batch_size for x in range(len(train_data) / batch_size + 1)].
InitialTrainOrder(n, batch_size) ==
  [x \in 1..(n \div batch_size) + 1 |-> (x - 1) * batch_size]

Shuffles(seq) ==
  {p \in [1..Len(seq) -> {seq[k] : k \in 1..Len(seq)}] :
     \A v \in {seq[k] : k \in 1..Len(seq)} : CountIn(v, p) = CountIn(v, seq)}

\* train_data[batch_start_index:batch_start_index + batch_size].
BatchAt(batch_start_index) ==
  SubSeq(train_data, batch_start_index + 1,
         Min(batch_start_index + train_args.batch_size, Len(train_data)))

\* Lines 304-326.
TrainLocals ==
  [e |-> 0, epochs_started |-> 0, i |-> 0,
   seen_examples_count |-> 0,
   best_avg_train_loss |-> Ratio(InitialBestLoss, 1),
   total_loss |-> 0,
   best_dev_loss |-> Ratio(InitialBestLoss, 1),
   best_dev_bleu |-> -1,
   best_train_bleu |-> -1,
   best_dev_epoch |-> 0,
   best_train_epoch |-> 0,
   patience |-> 0,
   train_bleu |-> -1,
   avg_train_loss |-> Ratio(-1, 1),
   total_batches |-> 0,
   train_loss_patience |-> 0,
   updates |-> 0]

TrainInit ==
  /\ train_pc = "epochs"
  /\ train_data \in TrainSets
  /\ train_args \in [batch_size : 1..MaxBatch, epochs : 1..MaxEpochs,
                     eval_after : 1..MaxEvalAfter, max_patience : 1..MaxPatience]
  /\ train = TrainLocals
  /\ train_order = InitialTrainOrder(Len(train_data), train_args.batch_size)
  /\ saved_model = -1
  /\ log_file = <<>>
  /\ train_ret = <<>>
  /\ LossIdle /\ DecIdle /\ BeamIdle /\ GreedyIdle /\ EnsIdle /\ EncIdle

\* Lines 334-339: the next epoch starts and the batch order is shuffled.
TrainEpoch ==
  /\ train_pc = "epochs"
  /\ train.epochs_started < train_args.epochs
  /\ train_order' \in Shuffles(train_order)
  /\ train' = [train EXCEPT !.e = train.epochs_started,
                            !.epochs_started = train.epochs_started + 1,
                            !.i = 0]
  /\ train_pc' = "batches"
  /\ UNCHANGED <<train_data, train_args, saved_model, log_file, train_ret>>
  /\ UNCHANGED NotTrain

\* Mutant of SkipBatch: a batch whose first input is empty is trained on.
SkipBatchOnlyIfEmpty(batch_inputs) == Len(batch_inputs) = 0

\* Line 351: actual_batch_size == 0 or len(batch_inputs[0]) == 0, a batch
\* being the input lengths of its examples.
SkipBatch(batch_inputs) == Len(batch_inputs) = 0 \/ batch_inputs[1] = 0

\* Lines 355-365: the loss of the batch is added, the parameters are updated
\* (updates counts the calls of trainer.update) and the average is updated.
AfterBatchLoss(t, loss, actual_batch_size) ==
  [t EXCEPT !.total_loss = t.total_loss + loss,
            !.updates = t.updates + 1,
            !.seen_examples_count = t.seen_examples_count + actual_batch_size,
            !.avg_train_loss =
               Ratio(t.total_loss + loss,
                     t.i * train_args.batch_size + t.e * Len(train_data))]

\* Lines 367-372.
AfterTrainLossPatience(t) ==
  IF RatioLess(t.avg_train_loss, t.best_avg_train_loss)
       /\ t.total_batches > WarmUpBatches
  THEN [t EXCEPT !.best_avg_train_loss = t.avg_train_loss,
                 !.train_loss_patience = 0]
  ELSE [t EXCEPT !.train_loss_patience = t.train_loss_patience + 1]

\* Line 373: checked only in the else branch, where the counter was incremented.
TrainLossPatienceExceeded(before, after) ==
  /\ after.train_loss_patience = before.train_loss_patience + 1
  /\ after.train_loss_patience > train_loss_patience_threshold

\* Lines 381-397.
AfterProgressPrint(t) ==
  IF t.i % PrintEvery = 0 /\ t.i > 0
  THEN [t EXCEPT !.seen_examples_count = 0]
  ELSE t

\* Mutant of Improves: a tie does not count as an improvement.
ImprovesStrictly(dev_bleu, best_dev_bleu) == dev_bleu > best_dev_bleu

\* Line 408.
Improves(dev_bleu, best_dev_bleu) == dev_bleu >= best_dev_bleu

\* Lines 408-420.
AfterCheckpoint(t, dev_bleu, dev_loss) ==
  LET b == IF Improves(dev_bleu, t.best_dev_bleu)
           THEN [t EXCEPT !.best_dev_bleu = dev_bleu,
                          !.best_dev_epoch = t.e,
                          !.patience = 0]
           ELSE [t EXCEPT !.patience = t.patience + 1]
  IN IF RatioLess(dev_loss, b.best_dev_loss)
     THEN [b EXCEPT !.best_dev_loss = dev_loss]
     ELSE b

\* Lines 514-522, log_to_file: one written line; header tells the line of
\* column names from a line of values.
LogLine(header, cols) == [header |-> header, cols |-> cols]

HeaderRow ==
  LogLine(TRUE, <<"epoch", "update", "avg_train_loss", "avg_dev_loss",
                  "train_accuracy", "dev_accuracy">>)

\* The header goes before the row whenever epoch is 0.
LogRows(epoch, total_updates, train_loss, dev_loss, train_accuracy, dev_accuracy) ==
  (IF epoch = 0 THEN <<HeaderRow>> ELSE <<>>)
    \o <<LogLine(FALSE, <<epoch, total_updates, train_loss, dev_loss,
                          train_accuracy, dev_accuracy>>)>>

\* Mutant of OutOfPatience: training stops one non-improving checkpoint late.
OutOfPatienceLate(patience, max_patience) == patience > max_patience

\* Line 435.
OutOfPatience(patience, max_patience) == patience = max_patience

\* Lines 375, 441 and 471: what every return statement returns.
Returned(t) == <<t.e, t.best_train_epoch>>

\* Lines 342-456: the loop body for the next batch of the epoch. Runs are
\* followed for MaxTotalBatches batches.
TrainBatch ==
  /\ train_pc = "batches"
  /\ train.i < Len(train_order)
  /\ train.total_batches < MaxTotalBatches
  /\ LET t0 == [train EXCEPT !.i = train.i + 1,
                             !.total_batches = train.total_batches + 1]
         batch_inputs == BatchAt(train_order[train.i + 1])
         actual_batch_size == Len(batch_inputs)
     IN IF SkipBatch(batch_inputs)
        THEN \* skip empty batches
             /\ train' = t0
             /\ UNCHANGED <<train_pc, saved_model, log_file, train_ret>>
        ELSE \E loss \in LossValues :
             LET t1 == AfterBatchLoss(t0, loss, actual_batch_size)
                 t2 == AfterTrainLossPatience(t1)
                 t3 == AfterProgressPrint(t2)
             IN IF TrainLossPatienceExceeded(t1, t2)
                THEN /\ train' = t2
                     /\ train_ret' = Returned(t2)
                     /\ train_pc' = "returned"
                     /\ UNCHANGED <<saved_model, log_file>>
                ELSE IF t3.total_batches % train_args.eval_after # 0
                THEN /\ train' = t3
                     /\ UNCHANGED <<train_pc, saved_model, log_file, train_ret>>
                ELSE \E dev_bleu \in BleuValues : \E dev_loss_sum \in DevLossValues :
                     LET dev_loss == Ratio(dev_loss_sum, 1)
                         t4 == AfterCheckpoint(t3, dev_bleu, dev_loss)
                     IN /\ train' = t4
                        /\ log_file' = log_file \o
                             LogRows(t3.e, t3.total_batches, t3.avg_train_loss,
                                     dev_loss, t3.train_bleu, dev_bleu)
                        /\ saved_model' = IF Improves(dev_bleu, t3.best_dev_bleu)
                                          THEN t3.total_batches ELSE saved_model
                        /\ IF OutOfPatience(t4.patience, train_args.max_patience)
                           THEN /\ train_ret' = Returned(t4)
                                /\ train_pc' = "returned"
                           ELSE UNCHANGED <<train_pc, train_ret>>
  /\ UNCHANGED <<train_data, train_args, train_order>>
  /\ UNCHANGED NotTrain

\* Lines 458-459: the epoch's batches are done.
TrainEpochEnd ==
  /\ train_pc = "batches"
  /\ train.i = Len(train_order)
  /\ train_pc' = "epochs"
  /\ UNCHANGED <<train_data, train_args, train, train_order, saved_model, log_file,
                 train_ret>>
  /\ UNCHANGED NotTrain

\* Lines 461-471: all the epochs are done.
TrainFinish ==
  /\ train_pc = "epochs"
  /\ train.epochs_started = train_args.epochs
  /\ train_ret' = Returned(train)
  /\ train_pc' = "returned"
  /\ UNCHANGED <<train_data, train_args, train, train_order, saved_model, log_file>>
  /\ UNCHANGED NotTrain

TrainNext == TrainEpoch \/ TrainBatch \/ TrainEpochEnd \/ TrainFinish

SpecTrain == TrainInit /\ [][TrainNext]_vars

\* ------------------------------------------------------------------ C10
\* The checkpoints evaluated so far, as the lines of values in the log.
Checkpoints == {k \in 1..Len(log_file) : ~log_file[k].header}

CheckpointEpoch(k) == log_file[k].cols[1]

CheckpointBleu(k) == log_file[k].cols[6]

\* The epochs of the checkpoints whose dev BLEU is the best of the run.
BestDevEpochs ==
  {CheckpointEpoch(k) : k \in {c \in Checkpoints :
     \A o \in Checkpoints : CheckpointBleu(o) <= CheckpointBleu(c)}}

\* C10: on every exit path train_model returns the epoch at which it stopped
\* and, once a checkpoint was evaluated, the epoch of a checkpoint with the
\* best dev BLEU seen so far.
C10_ReturnsLastAndBestDevEpoch ==
  train_pc = "returned" =>
    /\ train_ret[1] = train.e
    /\ Checkpoints # {} => train_ret[2] \in BestDevEpochs

\* The first returned value alone is the epoch at which training stopped.
C10_ReturnsLastEpoch ==
  train_pc = "returned" => train_ret[1] = train.epochs_started - 1

\* The epoch the code tracks for the best dev BLEU is one of the best epochs.
C10_BestDevEpochTracked ==
  Checkpoints # {} => train.best_dev_epoch \in BestDevEpochs

\* ------------------------------------------------------------------ C11
\* The value of total_batches at checkpoint k: it names the parameters the
\* model had then.
CheckpointUpdate(k) == log_file[k].cols[2]

IsBestBleu(c) == \A o \in Checkpoints : CheckpointBleu(o) <= CheckpointBleu(c)

\* The latest of the checkpoints that attained the largest dev BLEU.
LatestBest ==
  CHOOSE c \in Checkpoints :
    IsBestBleu(c) /\ \A o \in Checkpoints : IsBestBleu(o) => o <= c

\* C11: a checkpoint saves the model exactly when its dev BLEU is at least
\* the best of the earlier checkpoints, so at all times the saved file holds
\* the parameters of the latest checkpoint that attained the largest dev
\* BLEU, best_dev_bleu is that BLEU, and nothing is saved before the first
\* checkpoint.
C11_SavedIsLatestBest ==
  IF Checkpoints = {}
  THEN saved_model = -1 /\ train.best_dev_bleu = -1
  ELSE /\ saved_model = CheckpointUpdate(LatestBest)
       /\ train.best_dev_bleu = CheckpointBleu(LatestBest)

\* Three checkpoints: the first saved, the second tied with it and saved
\* again, the third fell short and left the file alone.
C11_Witness ==
  \E a, b, c \in Checkpoints :
    /\ a < b /\ b < c
    /\ CheckpointBleu(a) = CheckpointBleu(b)
    /\ CheckpointBleu(c) < CheckpointBleu(b)
    /\ saved_model = CheckpointUpdate(b)
    /\ saved_model # CheckpointUpdate(a)

\* ------------------------------------------------------------------ C12
\* A step that evaluated a checkpoint: it appended its row to the log.
CheckpointStep == Len(log_file') > Len(log_file)

\* The dev BLEU of the checkpoint a CheckpointStep evaluated.
NewBleu == log_file'[Len(log_file')].cols[6]

\* What a step does to the dev patience counter.
PatienceStep ==
  /\ CheckpointStep =>
       /\ train'.patience = IF NewBleu >= train.best_dev_bleu
                            THEN 0 ELSE train.patience + 1
       /\ train'.patience = train_args.max_patience => train_pc' = "returned"
  /\ ~CheckpointStep => train'.patience = train.patience
  /\ train.patience = train_args.max_patience =>
       /\ train'.total_batches = train.total_batches
       /\ log_file' = log_file

\* Once the counter is at max_patience training has returned, and it never
\* exceeds max_patience.
PatienceHalts ==
  /\ train_pc # "idle" => train.patience <= train_args.max_patience
  /\ (train_pc # "idle" /\ train.patience = train_args.max_patience)
       => train_pc = "returned"

\* C12: an improving checkpoint resets the dev patience counter, another
\* checkpoint adds one to it, no other step changes it, and when it reaches
\* max_patience training has returned: no batch is trained and no checkpoint
\* evaluated after that, and the counter never exceeds max_patience.
C12_PatienceCountsAndHalts == []PatienceHalts /\ [][PatienceStep]_vars

\* Training was halted by two non-improving checkpoints in a row, after
\* checkpoints that improved.
C12_Witness ==
  /\ train_pc = "returned"
  /\ train_args.max_patience = 2
  /\ train.patience = 2
  /\ Cardinality(Checkpoints) >= 4

\* ------------------------------------------------------------------ C13
\* How many checkpoint rows a step appended to the log.
NewCheckpoints ==
  Cardinality({k \in Len(log_file) + 1..Len(log_file') : ~log_file'[k].header})

\* A step that counted one more batch.
BatchCounted == train'.total_batches = train.total_batches + 1

\* C13: each time total_batches reaches a positive multiple of eval_after
\* exactly one checkpoint is evaluated, and none at any other count.
C13_CheckpointEveryEvalAfter ==
  [][/\ BatchCounted =>
          NewCheckpoints = IF train'.total_batches % train_args.eval_after = 0
                           THEN 1 ELSE 0
     /\ ~BatchCounted => NewCheckpoints = 0]_vars

\* The half of C13 that holds: checkpoints are evaluated only at multiples of
\* eval_after, at most one per count.
C13_CheckpointsOnlyAtMultiples ==
  /\ \A k \in Checkpoints : CheckpointUpdate(k) % train_args.eval_after = 0
  /\ \A k, l \in Checkpoints : CheckpointUpdate(k) = CheckpointUpdate(l) => k = l

\* ------------------------------------------------------------------ C14
\* How many of the batches counted so far came after the warm-up.
BatchesAfterWarmUp ==
  IF train.total_batches > WarmUpBatches
  THEN train.total_batches - WarmUpBatches ELSE 0

\* C14: the train-loss patience counter is not incremented while
\* total_batches <= 20: it counts only batches after the warm-up, so training
\* aborts only after more than the threshold of such batches in a row.
C14_TrainLossPatienceAfterWarmUp ==
  /\ train.total_batches <= WarmUpBatches => train.train_loss_patience = 0
  /\ train.train_loss_patience <= BatchesAfterWarmUp

\* What the code keeps instead: during the warm-up every trained batch adds
\* one to the counter.
C14_CountsEveryBatchOfWarmUp ==
  train.total_batches <= WarmUpBatches =>
    /\ train.train_loss_patience <= train.total_batches
    /\ train.best_avg_train_loss = Ratio(InitialBestLoss, 1)

\* ------------------------------------------------------------------ C15
\* C15: once a checkpoint was logged, the log of the run starts with the
\* header row and holds no other header row: every other row is the data row
\* of a checkpoint.
C15_HeaderOnceBeforeFirstRow ==
  Len(log_file) > 0 =>
    /\ log_file[1].header
    /\ \A k \in 2..Len(log_file) : ~log_file[k].header

\* What the code keeps instead: a header row goes before the data row of
\* every checkpoint of epoch 0, and of no other.
C15_HeaderBeforeEveryRowOfEpochZero ==
  \A k \in 1..Len(log_file) :
    IF log_file[k].header
    THEN /\ k < Len(log_file)
         /\ ~log_file[k + 1].header
         /\ CheckpointEpoch(k + 1) = 0
    ELSE CheckpointEpoch(k) = 0 => (k > 1 /\ log_file[k - 1].header)

\* ------------------------------------------------------------------ C16
\* The batch the next step of the epoch takes.
NextBatch == BatchAt(train_order[train.i + 1])

\* A step that took a batch with no example or whose first input is empty.
MalformedBatchStep ==
  /\ BatchCounted
  /\ Len(NextBatch) = 0 \/ NextBatch[1] = 0

\* C16: a batch with no example, or whose first input has length 0, is
\* skipped: no loss is added, no update applied, seen_examples_count, both
\* patience counters and the best-so-far values stay as they were, nothing is
\* saved or returned, and training goes on with the next batch of the order.
C16_MalformedBatchSkipped ==
  [][MalformedBatchStep =>
       /\ train'.total_loss = train.total_loss
       /\ train'.updates = train.updates
       /\ train'.seen_examples_count = train.seen_examples_count
       /\ train'.avg_train_loss = train.avg_train_loss
       /\ train'.train_loss_patience = train.train_loss_patience
       /\ train'.patience = train.patience
       /\ train'.best_avg_train_loss = train.best_avg_train_loss
       /\ train'.best_dev_loss = train.best_dev_loss
       /\ train'.best_dev_bleu = train.best_dev_bleu
       /\ train'.best_dev_epoch = train.best_dev_epoch
       /\ saved_model' = saved_model
       /\ train_pc' = "batches"
       /\ train_ret' = train_ret
       /\ train'.i = train.i + 1
       /\ train'.e = train.e
       /\ train_order' = train_order]_vars

\* A batch whose first input is empty was just skipped, after a batch was
\* trained on and with another batch of the epoch still to come.
C16_Witness ==
  /\ train_pc = "batches"
  /\ train.i >= 2 /\ train.i < Len(train_order)
  /\ Len(BatchAt(train_order[train.i])) > 0
  /\ BatchAt(train_order[train.i])[1] = 0
  /\ train.updates = train.i - 1
  /\ train.e = 0

\* ===================================================== batch_bilstm_encode
\* The tokens of a sentence: "x" is in every input vocabulary, "a" in the
\* output vocabulary only.
WordTokens == {"x", "a"}

Sentences == SeqsUpTo(WordTokens, MaxInLen)

\* The vocabularies get_batch_word_ids is called with: x2int and y2int.
Vocabularies == InputVocabularies \cup {output_vocabulary}

\* list.sort(key=lambda t: -len(t[0])): a stable sort, longest first. The
\* first n sentences sorted, the n-th put after those at least as long.
RECURSIVE SortPrefix(_, _)
SortPrefix(seqs, n) ==
  IF n = 0 THEN <<>>
  ELSE LET sorted == SortPrefix(seqs, n - 1)
           k == Cardinality({j \in 1..Len(sorted) : Len(sorted[j]) >= Len(seqs[n])})
       IN SubSeq(sorted, 1, k) \o <<seqs[n]>> \o SubSeq(sorted, k + 1, Len(sorted))

\* Mutant of SortByLenDesc: the examples are batched in the order loaded.
AsLoaded(seqs) == seqs

\* Line 281.
SortByLenDesc(seqs) == SortPrefix(seqs, Len(seqs))

LensOf(seqs) == [j \in 1..Len(seqs) |-> Len(seqs[j])]

\* Line 660: max_seq_len = len(input_seq_batch[0]) + 2.
max_seq_len == Len(input_seq_batch[1]) + 2

\* The encoder is given a batch of train_model.
TrainEncInit ==
  /\ enc_pc = "batch"
  /\ train_inputs \in NonEmptySeqsUpTo(Sentences, MaxTrain)
  /\ enc_batch_size \in 1..MaxBatch
  /\ x2int \in InputVocabularies
  /\ input_seq_batch = <<>> /\ word_ids = <<>> /\ masks = <<>> /\ tot_chars = 0
  /\ enc_i = 0 /\ f_outputs = <<>> /\ r_outputs = <<>> /\ final_outputs = <<>>
  /\ LossIdle /\ DecIdle /\ BeamIdle /\ GreedyIdle /\ EnsIdle /\ TrainIdle

\* The encoder is given any batch and either vocabulary.
EncInit ==
  /\ enc_pc = "ids"
  /\ train_inputs = <<>>
  /\ enc_batch_size = 0
  /\ x2int \in Vocabularies
  /\ input_seq_batch \in NonEmptySeqsUpTo(Sentences, MaxBatch)
  /\ word_ids = <<>> /\ masks = <<>> /\ tot_chars = 0
  /\ enc_i = 0 /\ f_outputs = <<>> /\ r_outputs = <<>> /\ final_outputs = <<>>
  /\ LossIdle /\ DecIdle /\ BeamIdle /\ GreedyIdle /\ EnsIdle /\ TrainIdle

\* train_model, lines 279-282 and 342-355: the examples are sorted, a batch
\* is cut at one of the start indices and, unless skipped, encoded.
EncBatch ==
  /\ enc_pc = "batch"
  /\ LET train_data_inputs == SortByLenDesc(train_inputs)
         order == InitialTrainOrder(Len(train_inputs), enc_batch_size)
     IN \E o \in 1..Len(order) :
          LET batch_inputs ==
                SubSeq(train_data_inputs, order[o] + 1,
                       Min(order[o] + enc_batch_size, Len(train_data_inputs)))
          IN IF SkipBatch(LensOf(batch_inputs))
             THEN enc_pc' = "skipped" /\ UNCHANGED input_seq_batch
             ELSE enc_pc' = "ids" /\ input_seq_batch' = batch_inputs
  /\ UNCHANGED <<train_inputs, enc_batch_size, x2int, word_ids, masks, tot_chars,
                 enc_i, f_outputs, r_outputs, final_outputs>>
  /\ UNCHANGED NotEnc

\* Line 644.
EncWordIds ==
  /\ enc_pc = "ids"
  /\ LET ret == get_batch_word_ids(input_seq_batch, x2int)
     IN /\ word_ids' = ret.ids
        /\ masks' = ret.masks
        /\ tot_chars' = ret.tot
  /\ enc_pc' = "pad"
  /\ UNCHANGED <<train_inputs, enc_batch_size, input_seq_batch, x2int, enc_i,
                 f_outputs, r_outputs, final_outputs>>
  /\ UNCHANGED NotEnc

\* Lines 646-660: a row of BEGIN ids goes first and a row of END ids last.
EncPad ==
  /\ enc_pc = "pad"
  /\ LET init_ids == [j \in 1..Len(input_seq_batch) |-> Index2int(x2int, BEGIN_SEQ)]
         end_ids == [j \in 1..Len(input_seq_batch) |-> Index2int(x2int, END_SEQ)]
     IN word_ids' = <<init_ids>> \o word_ids \o <<end_ids>>
  /\ enc_pc' = "loop"
  /\ UNCHANGED <<train_inputs, enc_batch_size, input_seq_batch, x2int, masks,
                 tot_chars, enc_i, f_outputs, r_outputs, final_outputs>>
  /\ UNCHANGED NotEnc

\* Lines 663-668: the forward rnn is fed row i, the backward rnn row
\* max_seq_len - i - 1 (rows are numbered from 0, as in the code).
EncStep ==
  /\ enc_pc = "loop"
  /\ enc_i < max_seq_len
  /\ IF enc_i >= Len(word_ids) \/ max_seq_len - enc_i - 1 >= Len(word_ids)
     THEN \* word_ids[...] raises IndexError
          /\ enc_pc' = "error"
          /\ UNCHANGED <<enc_i, f_outputs, r_outputs>>
     ELSE /\ f_outputs' = Append(f_outputs, enc_i)
          /\ r_outputs' = Append(r_outputs, max_seq_len - enc_i - 1)
          /\ enc_i' = enc_i + 1
          /\ UNCHANGED enc_pc
  /\ UNCHANGED <<train_inputs, enc_batch_size, input_seq_batch, x2int, word_ids,
                 masks, tot_chars, final_outputs>>
  /\ UNCHANGED NotEnc

\* Lines 670-675: the outputs of the two directions are joined per position.
EncConcat ==
  /\ enc_pc = "loop"
  /\ enc_i = max_seq_len
  /\ final_outputs' = [k \in 1..max_seq_len |->
                         <<f_outputs[k], r_outputs[max_seq_len - (k - 1)]>>]
  /\ enc_pc' = "done"
  /\ UNCHANGED <<train_inputs, enc_batch_size, input_seq_batch, x2int, word_ids,
                 masks, tot_chars, enc_i, f_outputs, r_outputs>>
  /\ UNCHANGED NotEnc

EncNext == EncWordIds \/ EncPad \/ EncStep \/ EncConcat

SpecEncode == EncInit /\ [][EncNext]_vars

TrainEncNext == EncBatch \/ EncWordIds \/ EncPad \/ EncStep \/ EncConcat

SpecTrainEncode == TrainEncInit /\ [][TrainEncNext]_vars

\* ---------------------------------------------------------------- C17
\* The length of a longest sequence of the batch.
LongestLen == CHOOSE n \in 0..MaxInLen :
                /\ \A j \in 1..Len(input_seq_batch) : Len(input_seq_batch[j]) <= n
                /\ \E j \in 1..Len(input_seq_batch) : Len(input_seq_batch[j]) = n

IsRealPosition(i, j) == i <= Len(input_seq_batch[j])

\* The token vocabulary id n stands for (ids are numbered from 0).
TokenOfId(n) == x2int[n + 1]

KnownTokens == {x2int[k] : k \in 1..Len(x2int)}

\* C17: what get_batch_word_ids returns has one row per position of the
\* longest sequence and one column per sequence, in the ids and in the
\* masks alike; a mask is 1 exactly at the real positions; the id of a real
\* position is that of its token, or of UNK for a token outside the
\* vocabulary, and the id of a padding position is that of END_SEQ; the
\* total returned is the number of 1s in the masks.
C17_IdsAndMasksOfBatch ==
  enc_pc = "pad" =>
    /\ Len(word_ids) = LongestLen
    /\ Len(masks) = LongestLen
    /\ \A i \in 1..LongestLen :
         /\ Len(word_ids[i]) = Len(input_seq_batch)
         /\ Len(masks[i]) = Len(input_seq_batch)
         /\ \A j \in 1..Len(input_seq_batch) :
              IF IsRealPosition(i, j)
              THEN /\ masks[i][j] = 1
                   /\ TokenOfId(word_ids[i][j]) =
                        IF input_seq_batch[j][i] \in KnownTokens
                        THEN input_seq_batch[j][i] ELSE UNK
              ELSE /\ masks[i][j] = 0
                   /\ TokenOfId(word_ids[i][j]) = END_SEQ
    /\ tot_chars = Cardinality({p \in (1..LongestLen) \X (1..Len(input_seq_batch)) :
                                  masks[p[1]][p[2]] = 1})

\* A batch of two sequences was converted: the longer one holds a token of
\* the vocabulary and one outside it, the shorter one was padded.
C17_Witness ==
  /\ enc_pc = "pad"
  /\ Len(input_seq_batch) = 2
  /\ Len(input_seq_batch[1]) < Len(input_seq_batch[2])
  /\ \E i \in 1..Len(input_seq_batch[2]) : input_seq_batch[2][i] \in KnownTokens
  /\ \E i \in 1..Len(input_seq_batch[2]) : input_seq_batch[2][i] \notin KnownTokens
  /\ TokenOfId(word_ids[2][1]) = END_SEQ
  /\ tot_chars = 3

\* ---------------------------------------------------------------- C18
EncoderEntered == enc_pc \in {"ids", "pad", "loop", "done", "error"}

\* The rows of the padded word_ids, numbered from 0 as in the code.
PaddedPositions == 0..(Len(word_ids) - 1)

\* C18: the first sequence of every batch train_model passes to the encoder
\* is a longest one of the batch, and batch_bilstm_encode returns exactly one
\* output per padded position (BEGIN, the positions of the longest
\* sequence, END), each joining the forward and the backward output of that
\* position, with no index error and no row left out.
C18_OneOutputPerPaddedPosition ==
  /\ enc_pc # "error"
  /\ EncoderEntered =>
       \A j \in 1..Len(input_seq_batch) :
         Len(input_seq_batch[j]) <= Len(input_seq_batch[1])
  /\ enc_pc = "done" =>
       /\ Len(word_ids) = LongestLen + 2
       /\ Len(final_outputs) = LongestLen + 2
       /\ \A k \in 1..Len(final_outputs) : final_outputs[k] = <<k - 1, k - 1>>
       /\ {f_outputs[k] : k \in 1..Len(f_outputs)} = PaddedPositions
       /\ {r_outputs[k] : k \in 1..Len(r_outputs)} = PaddedPositions

\* Examples loaded shortest first were encoded: the batch holds two
\* sequences of different lengths.
C18_Witness ==
  /\ enc_pc = "done"
  /\ Len(train_inputs) >= 2
  /\ Len(train_inputs[1]) < Len(train_inputs[2])
  /\ Len(input_seq_batch) = 2
  /\ Len(input_seq_batch[2]) < Len(input_seq_batch[1])
  /\ Len(final_outputs) = Len(input_seq_batch[1]) + 2

\* ====================================================== compute_batch_loss
\* pickneglogsoftmax_batch: -log softmax(h)[gold] is strictly positive for
\* finite scores; one unit stands for that positive value.

PickNegLogSoftmax(step_word_ids) == [j \in 1..Len(step_word_ids) |-> NllUnit]

\* Lines 583-588: the mask is applied only when the LAST element's mask is not 1.
MaskedStepLoss(batch_loss, mask) ==
  IF mask[Len(mask)] # 1
  THEN [j \in 1..Len(batch_loss) |-> batch_loss[j] * mask[j]]
  ELSE batch_loss

LossInit ==
  /\ loss_pc = "start"
  /\ batch_output_seqs \in NonEmptySeqsUpTo(SeqsUpTo(OutTokens, MaxOutLen), MaxBatch)
  /\ output_word_ids = <<>>
  /\ output_masks = <<>>
  /\ loss_i = 0
  /\ losses = <<>>
  /\ total_batch_loss = -1
  /\ DecIdle /\ BeamIdle /\ GreedyIdle /\ EnsIdle /\ TrainIdle /\ EncIdle

\* Lines 548-565: append END to every gold sentence, pad and mask.
LossPrepare ==
  /\ loss_pc = "start"
  /\ LET padded_batch_output_seqs ==
           [j \in 1..Len(batch_output_seqs) |-> Append(batch_output_seqs[j], END_SEQ)]
         r == get_batch_word_ids(padded_batch_output_seqs, output_vocabulary)
     IN /\ output_word_ids' = r.ids
        /\ output_masks' = r.masks
  /\ loss_pc' = "loop"
  /\ UNCHANGED <<batch_output_seqs, loss_i, losses, total_batch_loss>>
  /\ UNCHANGED NotLoss

\* Lines 568-596: one pass of the decoder loop.
LossStep ==
  /\ loss_pc = "loop"
  /\ loss_i < Len(output_word_ids)
  /\ LET step_word_ids == output_word_ids[loss_i + 1]
         batch_loss == PickNegLogSoftmax(step_word_ids)
     IN losses' = Append(losses, MaskedStepLoss(batch_loss, output_masks[loss_i + 1]))
  /\ loss_i' = loss_i + 1
  /\ UNCHANGED <<loss_pc, batch_output_seqs, output_word_ids, output_masks,
                 total_batch_loss>>
  /\ UNCHANGED NotLoss

\* Lines 598-601: sum over the timesteps and the batch.
LossSum ==
  /\ loss_pc = "loop"
  /\ loss_i = Len(output_word_ids)
  /\ total_batch_loss' = SumSeq([i \in 1..Len(losses) |-> SumSeq(losses[i])])
  /\ loss_pc' = "done"
  /\ UNCHANGED <<batch_output_seqs, output_word_ids, output_masks, loss_i, losses>>
  /\ UNCHANGED NotLoss

LossNext == LossPrepare \/ LossStep \/ LossSum

SpecLoss == LossInit /\ [][LossNext]_vars

\* ------------------------------------------------------------------ C1
\* C1: every (timestep, batch element) position beyond that element's own
\* length (its gold tokens plus the appended END) contributes zero to the
\* batch loss.
C1_PaddingContributesZero ==
  \A i \in 1..Len(losses) : \A j \in 1..Len(batch_output_seqs) :
     i > Len(batch_output_seqs[j]) + 1 => losses[i][j] = 0

====
